---------------------------- MODULE Spec2Model ----------------------------
(***************************************************************************)
(* A model of upagerduty/__init__.py: the Schedules client, the Events     *)
(* client (PagerDuty), the Incidents pagination generator and the two      *)
(* error classes.  The remote service is the environment: every response   *)
(* (status line and body) is drawn from a small set.                       *)
(*                                                                         *)
(* The module is written for Python 3 (urllib.error, urllib.request), but  *)
(* keeps Python 2 idioms (base64.encodestring on a str, `/` on ints).      *)
(* Both interpreters are modelled: `runtime` is "py3" for CPython 3 and    *)
(* "py2" for CPython 2 with the urllib.error/parse/request aliases         *)
(* installed, the only set-up in which the module imports there.           *)
(***************************************************************************)
EXTENDS Integers, Sequences, FiniteSets, TLC

VARIABLES
    runtime,    \* the interpreter the package runs under: "py2" or "py3"
    sched,      \* the latest Schedules.entries call: arguments, requests sent, outcome
    ev,         \* the latest PagerDuty trigger/acknowledge/resolve call
    gen,        \* the frame of the generator returned by Incidents.all
    requests,   \* the queries of the HTTP requests the generator has sent, in order
    responses,  \* the answers of the service to those requests, in order
    yielded,    \* the incidents handed to the consumer so far, in order
    asks        \* how many times the consumer has asked the generator for an element

vars == <<runtime, sched, ev, gen, requests, responses, yielded, asks>>

-----------------------------------------------------------------------------
(* Bounds of the model *)

\* totals reported by the service range over 0 .. MaxPages * limit + 50
MaxPages == 2
\* how many times the consumer asks the generator for one more element
MaxAsks == 8

Runtimes == {"py2", "py3"}
Dates == {"2011-05-06", "2011-06-06"}
\* the (since, until) ranges a caller asks for
Ranges == {<<"2011-05-06", "2011-06-06">>, <<"2011-06-06", "2011-07-06">>}

-----------------------------------------------------------------------------
(* Python values that cross the API: None, a str, a dict *)

None == [t |-> "none", v |-> ""]
Str(s) == [t |-> "str", v |-> s]
Dict(s) == [t |-> "dict", v |-> s]

\* json.dumps of one value: None becomes null, a str is quoted, a dict is
\* written as the JSON object it holds
JsonDumps(val) ==
    CASE val.t = "none" -> "null"
      [] val.t = "str" -> "\"" \o val.v \o "\""
      [] val.t = "dict" -> "{" \o val.v \o "}"

-----------------------------------------------------------------------------
(* Exceptions.  One record shape for all of them; `defined` holds the names *)
(* of the attributes statuscode, statusdesc, errormessage that were set.    *)

Exc(type) ==
    [type |-> type, code |-> 0, msg |-> "", defined |-> {},
     statuscode |-> 0, statusdesc |-> "", errormessage |-> "",
     status |-> "", errors |-> <<>>]

NoExc == Exc("")

\* the HTTPError urlopen raises for a non-2xx answer: code and msg
HTTPError(resp) == [Exc("HTTPError") EXCEPT !.code = resp.status, !.msg = resp.reason]

RECURSIVE Join(_, _)
\* sep.join(seq) for a list of str
Join(sep, seq) ==
    IF seq = <<>> THEN ""
    ELSE IF Len(seq) = 1 THEN seq[1]
    ELSE seq[1] \o sep \o Join(sep, Tail(seq))

\* The try block shared by SchedulesError.__init__ and IncidentsError.__init__:
\* read the body, decode it, and copy error.code, the joined error.errors and
\* error.message, in that order.  The first statement that raises ends the
\* block (bare except: pass) and leaves the earlier assignments in place.
DecodeError(e, body) ==
    IF body.text # "json" THEN e                       \* self.read() / json.loads raises
    ELSE IF "error" \notin body.keys THEN e            \* j['error'] raises KeyError
    ELSE LET error == body.error IN
         IF ~error.obj \/ "code" \notin error.keys THEN e   \* error['code'] raises
         ELSE LET e1 == [e EXCEPT !.statuscode = error.code,
                                  !.defined = @ \cup {"statuscode"}]
                  errs == IF "errors" \in error.keys THEN error.errors ELSE <<>>
              IN IF "errors" \in error.keys /\ ~error.joinable THEN e1   \* join raises TypeError
                 ELSE LET e2 == [e1 EXCEPT !.statusdesc = Join(" | ", errs),
                                           !.defined = @ \cup {"statusdesc"}]
                      IN IF "message" \notin error.keys THEN e2    \* error['message'] raises KeyError
                         ELSE [e2 EXCEPT !.errormessage = error.message,
                                         !.defined = @ \cup {"errormessage"}]

\* SchedulesError(http_error).  `arg` is what the caller passes: an HTTPError
\* (arg.isHTTPError) or the decoded content of a response (a dict).  A dict
\* has no attribute `filename`, so the HTTPError.__init__ call raises
\* AttributeError before the object exists.
SchedulesError(arg) ==
    IF ~arg.isHTTPError THEN Exc("AttributeError")
    ELSE DecodeError([Exc("SchedulesError") EXCEPT !.code = arg.code, !.msg = arg.msg],
                     arg.body)

\* IncidentsError(http_error): as SchedulesError, but statuscode, statusdesc
\* and errormessage are first set to the HTTP code, the HTTP msg and ''.
IncidentsError(arg) ==
    IF ~arg.isHTTPError THEN Exc("AttributeError")
    ELSE DecodeError([Exc("IncidentsError") EXCEPT
                          !.code = arg.code, !.msg = arg.msg,
                          !.statuscode = arg.code, !.statusdesc = arg.msg,
                          !.errormessage = "",
                          !.defined = {"statuscode", "statusdesc", "errormessage"}],
                     arg.body)

-----------------------------------------------------------------------------
(* What the service can answer *)

\* the value of the `error` key of a body
ErrVal(obj, keys, joinable) ==
    [obj |-> obj, keys |-> keys, code |-> 2001, message |-> "Invalid Input Provided",
     errors |-> <<"since is invalid", "until is invalid">>, joinable |-> joinable]

NoErrVal == ErrVal(FALSE, {}, TRUE)

ErrVals ==
    { ErrVal(TRUE, {"code", "message", "errors"}, TRUE),    \* well-formed
      ErrVal(TRUE, {"code", "message"}, TRUE),               \* no errors list
      ErrVal(TRUE, {"code", "errors"}, TRUE),                \* no message
      ErrVal(TRUE, {"message", "errors"}, TRUE),             \* no code
      ErrVal(TRUE, {"code", "message", "errors"}, FALSE),    \* errors holds a non-str
      ErrVal(FALSE, {}, TRUE) }                              \* error is not an object

WellFormed(error) ==
    /\ error.obj
    /\ {"code", "message"} \subseteq error.keys
    /\ "errors" \in error.keys => error.joinable

\* a body of the Schedules / Incidents API: not readable (no fp), not JSON,
\* or a JSON object with some of the keys entries, total, incidents, error
Body(text, keys, entries, total, incidents, error) ==
    [text |-> text, keys |-> keys, entries |-> entries, total |-> total,
     incidents |-> incidents, error |-> error]

Unreadable == Body("unreadable", {}, <<>>, 0, <<>>, NoErrVal)
Garbage == Body("garbage", {}, <<>>, 0, <<>>, NoErrVal)
EmptyObject == Body("json", {}, <<>>, 0, <<>>, NoErrVal)
ErrorBody(error) == Body("json", {"error"}, <<>>, 0, <<>>, error)
EntriesBody(entries) == Body("json", {"entries"}, entries, 0, <<>>, NoErrVal)
PageBody(total, incidents) == Body("json", {"total", "incidents"}, <<>>, total, incidents, NoErrVal)

ErrorBodies == {Unreadable, Garbage, EmptyObject} \cup {ErrorBody(e) : e \in ErrVals}

Response(status, reason, body) == [status |-> status, reason |-> reason, body |-> body]

Is2xx(status) == status >= 200 /\ status < 300

\* non-2xx answers: urlopen raises HTTPError for them
FailedResponses ==
    {Response(404, "Not Found", b) : b \in ErrorBodies}

EntryLists == {<<>>, <<"e1">>, <<"e1", "e2">>}

SchedulesResponses ==
    FailedResponses
    \cup {Response(200, "OK", EntriesBody(es)) : es \in EntryLists}
    \cup {Response(200, "OK", b) : b \in {Garbage, EmptyObject}}
    \cup {Response(200, "OK", ErrorBody(e)) : e \in ErrVals}
    \cup {Response(200, "OK", [EntriesBody(<<"e1">>) EXCEPT !.keys = {"entries", "error"},
                                                           !.error = e]) : e \in ErrVals}

-----------------------------------------------------------------------------
(* Request construction *)

\* The Authorization header of SchedulesRequest / IncidentsRequest:
\* base64.encodestring('%s:%s' % (username, password)).replace('\n', '').
\* Python 2 encodes the str; Python 3 has no base64.encodestring for a str
\* (TypeError up to 3.8, no such attribute from 3.9), whatever the credentials.
\* The set of exceptions the call can raise; empty when it returns.
AuthHeaderRaises(rt) ==
    IF rt = "py2" THEN {} ELSE {Exc("TypeError"), Exc("AttributeError")}

\* urlencode(params) of Schedules.entries: since and until, and overflow=True
\* (str(True)) only when the overflow argument is true
SchedulesQuery(since, until, overflow) ==
    IF overflow THEN [since |-> since, until |-> until, overflow |-> "True"]
    ELSE [since |-> since, until |-> until]

-----------------------------------------------------------------------------
(* Schedules *)

Outcome(kind, value, exc) == [kind |-> kind, value |-> value, exc |-> exc]
Return(value) == Outcome("return", value, NoExc)
Raise(exc) == Outcome("raise", <<>>, exc)

\* SchedulesRequest.fetch and SchedulesResponse.__init__ on the answer `resp`
SchedulesFetch(resp) ==
    IF ~Is2xx(resp.status)
    THEN [ok |-> FALSE,
          exc |-> SchedulesError([isHTTPError |-> TRUE, code |-> resp.status,
                                  msg |-> resp.reason, body |-> resp.body])]
    ELSE IF resp.body.text # "json" THEN [ok |-> FALSE, exc |-> Exc("ValueError")]
    ELSE IF "error" \in resp.body.keys
    THEN [ok |-> FALSE,
          exc |-> SchedulesError([isHTTPError |-> FALSE, code |-> 0, msg |-> "",
                                  body |-> resp.body])]
    ELSE [ok |-> TRUE, exc |-> NoExc]

\* Schedules.entries(since, until, overflow) against a service that would
\* answer `resp`: the set of records [sent, outcome] the call can end with
\* (sent: the requests that went out; none when the request is never built)
EntriesResults(rt, since, until, overflow, resp) ==
    IF AuthHeaderRaises(rt) # {}
    THEN {[sent |-> <<>>, outcome |-> Raise(x)] : x \in AuthHeaderRaises(rt)}
    ELSE LET sent == <<SchedulesQuery(since, until, overflow)>>
             r == SchedulesFetch(resp)
         IN IF ~r.ok THEN {[sent |-> sent, outcome |-> Raise(r.exc)]}
            ELSE IF "entries" \notin resp.body.keys
            THEN {[sent |-> sent, outcome |-> Raise(Exc("KeyError"))]}
            ELSE {[sent |-> sent, outcome |-> Return(resp.body.entries)]}

NoSched ==
    [called |-> FALSE, since |-> "", until |-> "", overflow |-> FALSE,
     resp |-> Response(0, "", EmptyObject), sent |-> <<>>, outcome |-> Outcome("none", <<>>, NoExc)]

Entries(since, until, overflow, resp) ==
    /\ \E r \in EntriesResults(runtime, since, until, overflow, resp) :
          sched' = [called |-> TRUE, since |-> since, until |-> until,
                    overflow |-> overflow, resp |-> resp,
                    sent |-> r.sent, outcome |-> r.outcome]
    /\ UNCHANGED <<runtime, ev, gen, requests, responses, yielded, asks>>

-----------------------------------------------------------------------------
(* Events *)

Fields == {"description", "incident_key", "details"}

\* the service key the PagerDuty client was constructed with
service_key == "0123456789abcdef"

\* a mutant of IsSent: every keyword argument is copied
IsSentAlways(v) == TRUE

\* `v is not None`: whether _request copies the keyword argument into the event
IsSent(v) == v # None

\* the dict `event` of PagerDuty._request: service_key, event_type and every
\* keyword argument that is not None
Event(event_type, kwargs) ==
    LET keys == {"service_key", "event_type"} \cup {k \in Fields : IsSent(kwargs[k])}
    IN [k \in keys |-> IF k = "service_key" THEN Str(service_key)
                       ELSE IF k = "event_type" THEN Str(event_type)
                       ELSE kwargs[k]]

\* json.dumps(event): the members of the JSON object, each value encoded
EncodedEvent(event) == [k \in DOMAIN event |-> JsonDumps(event[k])]

\* a body of the Events API: not JSON, or a JSON object with some of the keys
\* status, message, errors, incident_key
EventBody(text, keys, status) ==
    [text |-> text, keys |-> keys, status |-> status,
     message |-> "Event object is invalid",
     errors |-> <<"Service key is the wrong length">>,
     incident_key |-> "srv-key-1"]

EventBodies ==
    { EventBody("garbage", {}, ""),
      EventBody("json", {}, ""),
      EventBody("json", {"status", "incident_key"}, "success"),
      EventBody("json", {"status", "message"}, "success"),
      EventBody("json", {"status", "message", "errors"}, "invalid event"),
      EventBody("json", {"status", "message"}, "invalid event"),
      EventBody("json", {"status", "errors"}, "invalid event") }

EventResponses ==
    {Response(st[1], st[2], b) :
        st \in {<<200, "OK">>, <<400, "Bad Request">>, <<403, "Forbidden">>,
                 <<500, "Internal Server Error">>},
        b \in EventBodies}

EvOutcome(kind, value, exc) == [kind |-> kind, value |-> value, exc |-> exc]

\* PagerDutyException(status, message, errors): msg, status and errors
PagerDutyException(status, message, errors) ==
    [Exc("PagerDutyException") EXCEPT !.msg = message, !.status = status, !.errors = errors]

\* a mutant of Reraised: every HTTPError is re-raised
ReraisedAlways(code) == TRUE

\* `exc.code != 400` of _request: the HTTPError is re-raised
Reraised(code) == code # 400

\* the part of _request after urlopen returned or raised: the answer `resp`
\* to the one POST
EventResult(resp) ==
    IF ~Is2xx(resp.status) /\ Reraised(resp.status)
    THEN EvOutcome("raise", None, HTTPError(resp))
    ELSE LET result == resp.body IN
         IF result.text # "json" THEN EvOutcome("raise", None, Exc("ValueError"))
         ELSE IF "status" \notin result.keys THEN EvOutcome("raise", None, Exc("KeyError"))
         ELSE IF result.status # "success"
         THEN IF {"message", "errors"} \subseteq result.keys
              THEN EvOutcome("raise", None,
                             PagerDutyException(result.status, result.message,
                                                result.errors))
              ELSE EvOutcome("raise", None, Exc("KeyError"))
         ELSE IF "incident_key" \in result.keys
         THEN EvOutcome("return", Str(result.incident_key), NoExc)
         ELSE EvOutcome("return", None, NoExc)

NoEv ==
    [called |-> FALSE, op |-> "", event_type |-> "", kwargs |-> [k \in Fields |-> None],
     resp |-> Response(0, "", EventBody("json", {}, "")),
     sent |-> <<>>, outcome |-> EvOutcome("none", None, NoExc)]

\* PagerDuty._request(event_type, **kwargs) against a service that answers
\* resp; op is the public method the call came through
Request(op, event_type, kwargs, resp) ==
    /\ ev' = [called |-> TRUE, op |-> op, event_type |-> event_type, kwargs |-> kwargs,
              resp |-> resp,
              sent |-> <<EncodedEvent(Event(event_type, kwargs))>>,
              outcome |-> EventResult(resp)]
    /\ UNCHANGED <<runtime, sched, gen, requests, responses, yielded, asks>>

Descriptions == {None, Str("disk full")}
IncidentKeys == {None, Str("host1/disk")}
Details == {None, Dict("\"free\": 0")}

Kwargs(description, incident_key, details) ==
    [k \in Fields |-> CASE k = "description" -> description
                        [] k = "incident_key" -> incident_key
                        [] k = "details" -> details]

\* PagerDuty.trigger(description, incident_key, details)
Trigger(description, incident_key, details, resp) ==
    Request("trigger", "trigger", Kwargs(description, incident_key, details), resp)

\* PagerDuty.acknowledge(incident_key, description, details)
Acknowledge(incident_key, description, details, resp) ==
    Request("acknowledge", "acknowledge", Kwargs(description, incident_key, details), resp)

\* PagerDuty.resolve(incident_key, description, details)
Resolve(incident_key, description, details, resp) ==
    Request("resolve", "resolve", Kwargs(description, incident_key, details), resp)

-----------------------------------------------------------------------------
(* Incidents *)

\* the page size of Incidents.all
limit == 100

Totals == {0, 101} \cup UNION {{k * limit, k * limit + 50} : k \in 1..MaxPages}
IncidentLists == {<<>>, <<"i1", "i2">>, <<"i1", "i1">>}

IncidentsResponses ==
    {Response(200, "OK", PageBody(t, is)) : t \in Totals, is \in IncidentLists}
    \cup {Response(404, "Not Found", b) :
             b \in {Garbage, ErrorBody(ErrVal(TRUE, {"code", "message", "errors"}, TRUE)),
                    ErrorBody(ErrVal(TRUE, {"code", "errors"}, TRUE))}}
    \cup {Response(200, "OK", b) :
             b \in {Garbage, EmptyObject,
                    ErrorBody(ErrVal(TRUE, {"code", "message", "errors"}, TRUE)),
                    ErrorBody(ErrVal(FALSE, {}, TRUE))}}

\* urlencode(params) of Incidents._make_request
IncidentsQuery(since, until, lim, offset) ==
    [since |-> since, until |-> until, limit |-> lim, offset |-> offset]

\* IncidentsRequest.fetch and IncidentsResponse.__init__ on the answer `resp`
IncidentsFetch(resp) ==
    IF ~Is2xx(resp.status)
    THEN [ok |-> FALSE,
          exc |-> IncidentsError([isHTTPError |-> TRUE, code |-> resp.status,
                                  msg |-> resp.reason, body |-> resp.body])]
    ELSE IF resp.body.text # "json" THEN [ok |-> FALSE, exc |-> Exc("ValueError")]
    ELSE IF "error" \in resp.body.keys
    THEN [ok |-> FALSE,
          exc |-> IncidentsError([isHTTPError |-> FALSE, code |-> 0, msg |-> "",
                                  body |-> resp.body])]
    ELSE [ok |-> TRUE, exc |-> NoExc]

\* Incidents._make_request(since, until, limit, offset) against a service that
\* answers `resp`: the set of records [sent, answered, ok, exc, total, incidents]
\* it can end with (sent: the requests that went out, answered: their answers)
MakeRequest(rt, since, until, lim, offset, resp) ==
    IF AuthHeaderRaises(rt) # {}
    THEN {[sent |-> <<>>, answered |-> <<>>, ok |-> FALSE, exc |-> x,
           total |-> 0, incidents |-> <<>>] : x \in AuthHeaderRaises(rt)}
    ELSE LET sent == <<IncidentsQuery(since, until, lim, offset)>>
             r == IncidentsFetch(resp)
         IN IF ~r.ok
            THEN {[sent |-> sent, answered |-> <<resp>>, ok |-> FALSE, exc |-> r.exc,
                   total |-> 0, incidents |-> <<>>]}
            ELSE IF ~({"total", "incidents"} \subseteq resp.body.keys)
            THEN {[sent |-> sent, answered |-> <<resp>>, ok |-> FALSE,
                   exc |-> Exc("KeyError"), total |-> 0, incidents |-> <<>>]}
            ELSE {[sent |-> sent, answered |-> <<resp>>, ok |-> TRUE, exc |-> NoExc,
                   total |-> resp.body.total, incidents |-> resp.body.incidents]}

\* num_pages = (total / limit) + 1.  On ints `/` is floor division in Python 2
\* and true division in Python 3, where the result is a float whatever the
\* operands and range(1, num_pages) raises TypeError.
NumPages(rt, total, lim) ==
    [isInt |-> rt = "py2", floor |-> (total \div lim) + 1]

\* a mutant of Offset: the page number is used as the offset
OffsetInPages(page, lim) == page

\* `offset = page * limit`: the offset of the request for page `page`
Offset(page, lim) == page * lim

\* a mutant of MorePages: a total equal to the page size goes on
MorePagesInclusive(total, lim) == total >= lim

\* `total > limit`: whether Incidents.all goes on after the first page
MorePages(total, lim) == total > lim

\* The frame of the generator.  pc: "none" before all() is called, "created"
\* before the first next(), "first" / "later" while suspended at the yield of
\* the first page / of a later page, "done" once it returned, "raised" once
\* an exception left it.  i: how many elements of `incidents` were yielded.
NoGen ==
    [pc |-> "none", since |-> "", until |-> "", total |-> 0, incidents |-> <<>>,
     i |-> 0, num_pages |-> 0, page |-> 0, exc |-> NoExc]

Machine(g, rq, rs, yl) == [gen |-> g, requests |-> rq, responses |-> rs, yielded |-> yl]

\* the exception of the failed call r leaves the frame
Raised(m, r) ==
    [m EXCEPT !.gen.pc = "raised", !.gen.exc = r.exc,
              !.requests = @ \o r.sent, !.responses = @ \o r.answered]

\* what one _make_request call can end with, over every answer of the service
Answers(rt, since, until, lim, offset) ==
    UNION {MakeRequest(rt, since, until, lim, offset, resp) : resp \in IncidentsResponses}

\* `total, incidents = self._make_request(...)` took effect in frame m
Received(m, r) ==
    [m EXCEPT !.gen.total = r.total, !.gen.incidents = r.incidents, !.gen.i = 0,
              !.requests = @ \o r.sent, !.responses = @ \o r.answered]

RECURSIVE PageLoop(_, _, _), LaterLoop(_, _)

\* lines 293-295, reached when the loop over the first page is exhausted;
\* a num_pages that is no int makes range() raise
AfterFirst(rt, m) ==
    IF ~MorePages(m.gen.total, limit) THEN {[m EXCEPT !.gen.pc = "done"]}
    ELSE LET n == NumPages(rt, m.gen.total, limit) IN
         IF ~n.isInt THEN {[m EXCEPT !.gen.pc = "raised", !.gen.exc = Exc("TypeError")]}
         ELSE PageLoop(rt, [m EXCEPT !.gen.num_pages = n.floor], 1)

\* lines 290-291: yield the next incident of the first page, or go on
FirstLoop(rt, m) ==
    IF m.gen.i < Len(m.gen.incidents)
    THEN {[m EXCEPT !.gen.pc = "first", !.gen.i = @ + 1,
                    !.yielded = Append(@, m.gen.incidents[m.gen.i + 1])]}
    ELSE AfterFirst(rt, m)

\* lines 295-297: `for page in range(1, num_pages)` at the value `page`
PageLoop(rt, m, page) ==
    IF page >= m.gen.num_pages THEN {[m EXCEPT !.gen.pc = "done"]}
    ELSE UNION { IF r.ok
                 THEN LaterLoop(rt, Received([m EXCEPT !.gen.page = page], r))
                 ELSE {Raised([m EXCEPT !.gen.page = page], r)}
                 : r \in Answers(rt, m.gen.since, m.gen.until, limit, Offset(page, limit)) }

\* lines 298-299: yield the next incident of the current page, or go on
LaterLoop(rt, m) ==
    IF m.gen.i < Len(m.gen.incidents)
    THEN {[m EXCEPT !.gen.pc = "later", !.gen.i = @ + 1,
                    !.yielded = Append(@, m.gen.incidents[m.gen.i + 1])]}
    ELSE PageLoop(rt, m, m.gen.page + 1)

\* line 288: the request for offset 0, then the loop over the first page
Start(rt, m) ==
    UNION { IF r.ok THEN FirstLoop(rt, Received(m, r))
            ELSE {Raised(m, r)}
            : r \in Answers(rt, m.gen.since, m.gen.until, limit, Offset(0, limit)) }

\* next() on the generator: run the frame from where it is suspended to the
\* next yield, to its return or to the exception that leaves it.  A generator
\* that returned or raised stays as it is (StopIteration).
Resume(rt, m) ==
    CASE m.gen.pc = "created" -> Start(rt, m)
      [] m.gen.pc = "first" -> FirstLoop(rt, m)
      [] m.gen.pc = "later" -> LaterLoop(rt, m)
      [] OTHER -> {m}

\* a mutant of All: the first page is requested when all() is called
AllEager(since, until) ==
    /\ \E m \in Start(runtime, Machine([NoGen EXCEPT !.pc = "created", !.since = since,
                                                     !.until = until], <<>>, <<>>, <<>>)) :
          /\ gen' = m.gen
          /\ requests' = m.requests
          /\ responses' = m.responses
          /\ yielded' = m.yielded
    /\ asks' = 0
    /\ UNCHANGED <<runtime, sched, ev>>

\* Incidents.all(since, until): a generator function, so the call only
\* creates the frame
All(since, until) ==
    /\ gen' = [NoGen EXCEPT !.pc = "created", !.since = since, !.until = until]
    /\ requests' = <<>>
    /\ responses' = <<>>
    /\ yielded' = <<>>
    /\ asks' = 0
    /\ UNCHANGED <<runtime, sched, ev>>

\* the consumer asks the generator for one more element
IterNext ==
    /\ gen.pc # "none"
    /\ asks < MaxAsks
    /\ asks' = asks + 1
    /\ \E m \in Resume(runtime, Machine(gen, requests, responses, yielded)) :
          /\ gen' = m.gen
          /\ requests' = m.requests
          /\ responses' = m.responses
          /\ yielded' = m.yielded
    /\ UNCHANGED <<runtime, sched, ev>>

-----------------------------------------------------------------------------
(* Specifications *)

Init ==
    /\ runtime \in Runtimes
    /\ sched = NoSched
    /\ ev = NoEv
    /\ gen = NoGen
    /\ requests = <<>>
    /\ responses = <<>>
    /\ yielded = <<>>
    /\ asks = 0

NextSchedules ==
    \E since \in Dates, until \in Dates, overflow \in BOOLEAN, resp \in SchedulesResponses :
        Entries(since, until, overflow, resp)

NextEvents ==
    \E d \in Descriptions, k \in IncidentKeys, x \in Details, resp \in EventResponses :
        \/ Trigger(d, k, x, resp)
        \/ Acknowledge(k, d, x, resp)
        \/ Resolve(k, d, x, resp)

NextIncidents ==
    \/ \E range \in Ranges : All(range[1], range[2])
    \/ IterNext

Next == NextSchedules \/ NextEvents \/ NextIncidents

\* The three clients share no state (each instance keeps only its own
\* credentials), so each is also specified on its own, the other clients idle.

Spec == Init /\ [][Next]_vars
SpecSchedules == Init /\ [][NextSchedules]_vars
SpecEvents == Init /\ [][NextEvents]_vars
SpecIncidents == Init /\ [][NextIncidents]_vars

-----------------------------------------------------------------------------
(* Properties of the Incidents generator *)

\* resp is a page: a 2xx answer whose body decodes to total and incidents
IsPage(resp) ==
    /\ Is2xx(resp.status)
    /\ resp.body.text = "json"
    /\ "error" \notin resp.body.keys
    /\ {"total", "incidents"} \subseteq resp.body.keys

\* resp is a failed page request: a non-2xx status or an error envelope
IsFailure(resp) ==
    \/ ~Is2xx(resp.status)
    \/ resp.body.text = "json" /\ "error" \in resp.body.keys

RECURSIVE Concat(_)
\* the incidents of the pages among the answers rs, concatenated in order
Concat(rs) ==
    IF rs = <<>> THEN <<>>
    ELSE (IF IsPage(Head(rs)) THEN Head(rs).body.incidents ELSE <<>>) \o Concat(Tail(rs))

Ceil(a, b) == (a + b - 1) \div b

\* the total the first answer reported
FirstTotal == responses[1].body.total

C2_CeilRoundTrips ==
    (gen.pc = "done" /\ FirstTotal >= 1) => Len(requests) = Ceil(FirstTotal, 100)

C5_FailureRaisesIncidentsError ==
    (Len(responses) >= 1 /\ IsFailure(responses[Len(responses)])) =>
        /\ gen.pc = "raised"
        /\ gen.exc.type = "IncidentsError"
        /\ Len(requests) = Len(responses)
        /\ yielded = Concat(SubSeq(responses, 1, Len(responses) - 1))

-----------------------------------------------------------------------------
(* Properties of the Events client *)

Quoted(s) == "\"" \o s \o "\""

\* C6: on HTTP 400 no HTTPError is raised and the body is the result: a body
\* whose status is not "success" (and that carries the message and errors it
\* is to be reported with) raises PagerDutyException with exactly that
\* status, message and errors; a body whose status is "success" returns its
\* incident_key, or None when it has none.  Any other non-2xx status raises
\* the HTTPError with that status, never PagerDutyException.
C6_Status400IsData ==
    ev.called =>
        LET resp == ev.resp
            body == resp.body
            out == ev.outcome
        IN /\ resp.status = 400 =>
                /\ out.exc.type # "HTTPError"
                /\ (body.text = "json" /\ {"status", "message", "errors"} \subseteq body.keys
                        /\ body.status # "success") =>
                       /\ out.kind = "raise"
                       /\ out.exc.type = "PagerDutyException"
                       /\ out.exc.status = body.status
                       /\ out.exc.msg = body.message
                       /\ out.exc.errors = body.errors
                /\ (body.text = "json" /\ "status" \in body.keys /\ body.status = "success") =>
                       /\ out.kind = "return"
                       /\ out.value = IF "incident_key" \in body.keys
                                      THEN Str(body.incident_key) ELSE None
           /\ (~Is2xx(resp.status) /\ resp.status # 400) =>
                /\ out.kind = "raise"
                /\ out.exc.type = "HTTPError"
                /\ out.exc.code = resp.status

C6_Witness ==
    /\ ev.called
    /\ ev.resp.status = 400
    /\ ev.resp.body.status = "invalid event"
    /\ ev.outcome.exc.type = "PagerDutyException"
    /\ ev.outcome.exc.errors = <<"Service key is the wrong length">>

\* C7: the posted JSON object has exactly the keys service_key, event_type
\* (the name of the operation called) and those of description, incident_key
\* and details that were passed a value other than None; no member is null.
C7_NullFieldsOmitted ==
    ev.called =>
        /\ Len(ev.sent) = 1
        /\ DOMAIN ev.sent[1] =
              {"service_key", "event_type"} \cup {k \in Fields : ev.kwargs[k] # None}
        /\ ev.sent[1]["event_type"] = Quoted(ev.op)
        /\ ev.sent[1]["service_key"] = Quoted(service_key)
        /\ \A k \in DOMAIN ev.sent[1] : ev.sent[1][k] # "null"

C7_Witness ==
    /\ ev.called
    /\ ev.op = "trigger"
    /\ ev.kwargs["description"] = Str("disk full")
    /\ ev.kwargs["incident_key"] = None
    /\ ev.kwargs["details"] = None
    /\ DOMAIN ev.sent[1] = {"service_key", "event_type", "description"}

-----------------------------------------------------------------------------
(* Properties of the error path *)

AllThree == {"statuscode", "statusdesc", "errormessage"}

\* e carries the fields of the structured error object
Structured(e, error) ==
    /\ e.defined = AllThree
    /\ e.statuscode = error.code
    /\ e.statusdesc = Join(" | ", IF "errors" \in error.keys THEN error.errors ELSE <<>>)
    /\ e.errormessage = error.message

\* e carries the raw HTTP status and message
Coarse(e, status, reason) ==
    /\ e.defined = AllThree
    /\ e.statuscode = status
    /\ e.statusdesc = reason
    /\ e.errormessage = ""

\* the answer to the generator's latest request
LastResponse == responses[Len(responses)]

\* C8: a 2xx answer whose JSON has a top-level error key makes
\* Schedules.entries raise SchedulesError, and a page request of Incidents.all
\* raise IncidentsError, with the fields of the error object when it is
\* well-formed and the raw HTTP status and message otherwise.
C8_EnvelopeRaisesApiError ==
    /\ (sched.sent # <<>> /\ Is2xx(sched.resp.status) /\ sched.resp.body.text = "json"
            /\ "error" \in sched.resp.body.keys) =>
          /\ sched.outcome.kind = "raise"
          /\ sched.outcome.exc.type = "SchedulesError"
          /\ IF WellFormed(sched.resp.body.error)
             THEN Structured(sched.outcome.exc, sched.resp.body.error)
             ELSE Coarse(sched.outcome.exc, sched.resp.status, sched.resp.reason)
    /\ (responses # <<>> /\ Is2xx(LastResponse.status) /\ LastResponse.body.text = "json"
            /\ "error" \in LastResponse.body.keys) =>
          /\ gen.pc = "raised"
          /\ gen.exc.type = "IncidentsError"
          /\ IF WellFormed(LastResponse.body.error)
             THEN Structured(gen.exc, LastResponse.body.error)
             ELSE Coarse(gen.exc, LastResponse.status, LastResponse.reason)

\* the body has a structured error object the secondary decode gets through
Decodes(body) ==
    body.text = "json" /\ "error" \in body.keys /\ WellFormed(body.error)

\* C9: a SchedulesError or IncidentsError built from a failed HTTP call has
\* statuscode, statusdesc and errormessage all set: to the fields of the
\* body's error object when the decode gets through, and to the HTTP status
\* code, the HTTP reason and '' when any step of it fails.
C9_TwoTierFallback ==
    /\ (sched.outcome.kind = "raise" /\ sched.outcome.exc.type = "SchedulesError") =>
          IF Decodes(sched.resp.body)
          THEN Structured(sched.outcome.exc, sched.resp.body.error)
          ELSE Coarse(sched.outcome.exc, sched.resp.status, sched.resp.reason)
    /\ (gen.pc = "raised" /\ gen.exc.type = "IncidentsError") =>
          IF Decodes(LastResponse.body)
          THEN Structured(gen.exc, LastResponse.body.error)
          ELSE Coarse(gen.exc, LastResponse.status, LastResponse.reason)

\* C10: every Schedules.entries call makes exactly one round trip, its query
\* carries since and until and overflow=True exactly when overflow is true,
\* and a call that returns returns the entries of the answer; every Events
\* call makes exactly one round trip.
C10_OneRoundTripPerCall ==
    /\ sched.called =>
          /\ Len(sched.sent) = 1
          /\ sched.sent[1].since = sched.since
          /\ sched.sent[1].until = sched.until
          /\ ("overflow" \in DOMAIN sched.sent[1]) = sched.overflow
          /\ sched.overflow => sched.sent[1].overflow = "True"
          /\ sched.outcome.kind \in {"return", "raise"}
          /\ (Is2xx(sched.resp.status) /\ sched.resp.body.text = "json"
                 /\ sched.resp.body.keys = {"entries"}) =>
                (sched.outcome.kind = "return" /\ sched.outcome.value = sched.resp.body.entries)
          /\ sched.outcome.kind = "return" => sched.outcome.value = sched.resp.body.entries
    /\ ev.called => Len(ev.sent) = 1

=============================================================================
